---- MODULE Spec2Model ----
(***************************************************************************)
(* NeuroSwarm-Bird: the main loop of src/main.py (LSL drain, FFT           *)
(* classification, profile assignment, boids flocking) together with the  *)
(* sample producers of src/fake_brain.py and src/playback_physionet.py.   *)
(*                                                                         *)
(* Reals are fixed-point integers: lengths, speeds and forces are counted *)
(* in 1/Unit of a pixel, EEG samples in 1/SampleUnit, weights in tenths.  *)
(***************************************************************************)
EXTENDS Integers, Sequences, FiniteSets, TLC

\* ---------------------------------------------------------------- bounds
NumBoids == 3
MaxTicks == 2
MaxChunks == 3
ChunkLen == 128
MaxPower == 10
MaxFaults == 1
MaxSteps == 1
Unit == 100
SampleUnit == 10

\* ------------------------------------------------------- integer helpers
Abs(a) == IF a < 0 THEN -a ELSE a

\* Division rounding toward zero (TLA+ \div rounds toward minus infinity).
TruncDiv(a, b) == IF a >= 0 THEN a \div b ELSE -((-a) \div b)

\* Division rounding to the nearest integer, as one float operation rounds.
RoundDiv(a, b) == IF a >= 0 THEN (2 * a + b) \div (2 * b) ELSE -((2 * (-a) + b) \div (2 * b))

\* ------------------------------------------------------- numpy.fft.rfft
\* sin(2*pi*i/256) * 1000 for i = 0..255 (index i+1): the twiddle factors of a
\* 256-point transform.
SinTable ==
  << 0, 25, 49, 74, 98, 122, 147, 171, 195, 219, 243, 267, 290, 314, 337, 360,
     383, 405, 428, 450, 471, 493, 514, 535, 556, 576, 596, 615, 634, 653, 672, 690,
     707, 724, 741, 757, 773, 788, 803, 818, 831, 845, 858, 870, 882, 893, 904, 914,
     924, 933, 942, 950, 957, 964, 970, 976, 981, 985, 989, 992, 995, 997, 999, 1000,
     1000, 1000, 999, 997, 995, 992, 989, 985, 981, 976, 970, 964, 957, 950, 942, 933,
     924, 914, 904, 893, 882, 870, 858, 845, 831, 818, 803, 788, 773, 757, 741, 724,
     707, 690, 672, 653, 634, 615, 596, 576, 556, 535, 514, 493, 471, 450, 428, 405,
     383, 360, 337, 314, 290, 267, 243, 219, 195, 171, 147, 122, 98, 74, 49, 25,
     0, -25, -49, -74, -98, -122, -147, -171, -195, -219, -243, -267, -290, -314, -337, -360,
     -383, -405, -428, -450, -471, -493, -514, -535, -556, -576, -596, -615, -634, -653, -672, -690,
     -707, -724, -741, -757, -773, -788, -803, -818, -831, -845, -858, -870, -882, -893, -904, -914,
     -924, -933, -942, -950, -957, -964, -970, -976, -981, -985, -989, -992, -995, -997, -999, -1000,
     -1000, -1000, -999, -997, -995, -992, -989, -985, -981, -976, -970, -964, -957, -950, -942, -933,
     -924, -914, -904, -893, -882, -870, -858, -845, -831, -818, -803, -788, -773, -757, -741, -724,
     -707, -690, -672, -653, -634, -615, -596, -576, -556, -535, -514, -493, -471, -450, -428, -405,
     -383, -360, -337, -314, -290, -267, -243, -219, -195, -171, -147, -122, -98, -74, -49, -25 >>

TrigScale == SinTable[65]

\* sin(2*pi*i/256) * TrigScale and cos(2*pi*i/256) * TrigScale for any i >= 0.
SinT(i) == SinTable[(i % 256) + 1]

CosT(i) == SinTable[((i + 64) % 256) + 1]

\* The one element of a singleton set.  TLC evaluates an operator argument or a
\* LET definition again at each use; a value bound by x \in {e} is computed once.
Only(S) == CHOOSE x \in S : TRUE

\* f[lo] + ... + f[hi]
RECURSIVE SumRange(_, _, _)
SumRange(f, lo, hi) ==
  IF lo > hi THEN 0
  ELSE IF lo = hi THEN f[lo]
  ELSE SumRange(f, lo, (lo + hi) \div 2) + SumRange(f, ((lo + hi) \div 2) + 1, hi)

\* Eight terms of the real and of the imaginary sum of bin k, from data[lo].
ReTerms(data, k, lo) ==
    data[lo] * CosT(k * (lo - 1)) + data[lo + 1] * CosT(k * (lo + 1 - 1))
  + data[lo + 2] * CosT(k * (lo + 2 - 1)) + data[lo + 3] * CosT(k * (lo + 3 - 1))
  + data[lo + 4] * CosT(k * (lo + 4 - 1)) + data[lo + 5] * CosT(k * (lo + 5 - 1))
  + data[lo + 6] * CosT(k * (lo + 6 - 1)) + data[lo + 7] * CosT(k * (lo + 7 - 1))

ImTerms(data, k, lo) ==
    data[lo] * SinT(k * (lo - 1)) + data[lo + 1] * SinT(k * (lo + 1 - 1))
  + data[lo + 2] * SinT(k * (lo + 2 - 1)) + data[lo + 3] * SinT(k * (lo + 3 - 1))
  + data[lo + 4] * SinT(k * (lo + 4 - 1)) + data[lo + 5] * SinT(k * (lo + 5 - 1))
  + data[lo + 6] * SinT(k * (lo + 6 - 1)) + data[lo + 7] * SinT(k * (lo + 7 - 1))

\* Sum over n = 1..256 of data[n] * cos(2*pi*k*(n-1)/256), and of
\* -data[n] * sin(2*pi*k*(n-1)/256): rfft(data)[k] times TrigScale.
DftRe(data, k) ==
  SumRange([b \in 0..31 |-> ReTerms(data, k, 8 * b + 1)], 0, 31)

DftIm(data, k) ==
  -SumRange([b \in 0..31 |-> ImTerms(data, k, 8 * b + 1)], 0, 31)

\* psd[k] = np.abs(fft_vals[k])**2
Psd(data, k) ==
  Only({TruncDiv(re, TrigScale) * TruncDiv(re, TrigScale)
          + TruncDiv(im, TrigScale) * TruncDiv(im, TrigScale) :
        re \in {DftRe(data, k)}, im \in {DftIm(data, k)}})

\* np.sum(psd[(freqs >= lo) & (freqs <= hi)]), freqs[k] = k * rate / len(data).
BandPower(data, rate, lo, hi) ==
  LET n == Len(data)
      masked == [k \in 0..(n \div 2) |->
                   IF k * rate >= lo * n /\ k * rate <= hi * n THEN Psd(data, k) ELSE 0]
  IN  SumRange(masked, 0, n \div 2)

\* ------------------------------------------------------ get_brain_state
None == [state |-> "NONE"]

\* A float quotient kept exact as num/den; den = 0 is numpy's inf (num > 0)
\* or nan (num = 0).
Quotient(num, den) == [num |-> num, den |-> den]

ZeroRatio == Quotient(0, 1)

\* ratio > 2.0
RatioAboveThreshold(r) ==
  IF r.den = 0 THEN r.num > 0 ELSE r.num > 2 * r.den

RatioNoGuard(alpha_power, beta_power) == Quotient(beta_power, alpha_power)

Ratio(alpha_power, beta_power) ==
  IF alpha_power > 0 THEN Quotient(beta_power, alpha_power) ELSE ZeroRatio

StateOfRatio(ratio) ==
  IF RatioAboveThreshold(ratio) THEN "STRESSED" ELSE "RELAXED"

Decide(alpha_power, beta_power) ==
  LET ratio == Ratio(alpha_power, beta_power)
  IN  [state       |-> StateOfRatio(ratio),
       alpha_power |-> alpha_power,
       beta_power  |-> beta_power,
       ratio       |-> ratio]

get_brain_state(data_buffer, rate) ==
  IF Len(data_buffer) < rate THEN None
  ELSE Only({Decide(alpha_power, beta_power) :
               alpha_power \in {BandPower(data_buffer, rate, 8, 12)},
               beta_power \in {BandPower(data_buffer, rate, 13, 30)}})

\* ------------------------------------------------------------- Vector2
Vec(x, y) == <<x, y>>

ZeroVec == Vec(0, 0)

VAdd(a, b) == Vec(a[1] + b[1], a[2] + b[2])

VSub(a, b) == Vec(a[1] - b[1], a[2] - b[2])

\* floor(sqrt(n)) by bisection on lo..hi.
RECURSIVE SqrtSearch(_, _, _)
SqrtSearch(n, lo, hi) ==
  IF lo >= hi THEN lo
  ELSE LET mid == (lo + hi + 1) \div 2
       IN  IF mid * mid <= n THEN SqrtSearch(n, mid, hi) ELSE SqrtSearch(n, lo, mid - 1)

\* sqrt(n) rounded to the nearest integer.
Sqrt(n) ==
  LET r == SqrtSearch(n, 0, 46340)
  IN  IF n - r * r > r THEN r + 1 ELSE r

\* Vector2.length_squared(), for vectors shorter than 300 pixels.
LengthSquared(v) == v[1] * v[1] + v[2] * v[2]

\* Vector2.length(); beyond 300 pixels the root is taken at pixel resolution.
Length(v) ==
  IF Abs(v[1]) < 300 * Unit /\ Abs(v[2]) < 300 * Unit
  THEN Sqrt(LengthSquared(v))
  ELSE Unit * Sqrt(LengthSquared(Vec(TruncDiv(v[1], Unit), TruncDiv(v[2], Unit))))

\* v / s for a fixed-point scalar s # 0, and v * s.
VDivScalar(v, s) == Vec(RoundDiv(v[1] * Unit, s), RoundDiv(v[2] * Unit, s))

VMulScalar(v, s) == Vec(RoundDiv(v[1] * s, Unit), RoundDiv(v[2] * s, Unit))

\* v / total for an integer count.
VDivCount(v, total) == Vec(RoundDiv(v[1], total), RoundDiv(v[2], total))

\* v * w for a weight given in tenths.
VMulWeight(v, w) == Vec(RoundDiv(v[1] * w, 10), RoundDiv(v[2] * w, 10))

\* Vector2.normalize(): a vector of length 1.0.
Normalize(v) == VDivScalar(v, Length(v))

\* Vector2.scale_to_length(len)
ScaleToLength(v, len) ==
  LET l == Length(v)
  IN  Vec(RoundDiv(v[1] * len, l), RoundDiv(v[2] * len, l))

\* ----------------------------------------------------- module tunables
WIDTH == 1200 * Unit

HEIGHT == 800 * Unit

PERCEPTION_RADIUS == 50 * Unit

BUFFER_MAXLEN == 256

FULL_LEN == 256

RATE == 256

Boids == 1..NumBoids

MixedProfile ==
  [sep |-> 100, ali |-> 2, coh |-> -20,
   max_speed |-> 4 * Unit, max_force |-> Unit \div 10, color |-> "red"]

\* The six globals as main() assigns them for a state (weights in tenths).
StressedProfile ==
  [sep |-> 100, ali |-> 2, coh |-> -20,
   max_speed |-> 10 * Unit, max_force |-> Unit \div 2, color |-> "red"]

RelaxedProfile ==
  [sep |-> 10, ali |-> 10, coh |-> 10,
   max_speed |-> 4 * Unit, max_force |-> Unit \div 10, color |-> "cyan"]

ProfileFor(state) ==
  IF state = "STRESSED" THEN StressedProfile ELSE RelaxedProfile

\* The globals as the module sets them at import.
ModuleDefaults ==
  [sep |-> 15, ali |-> 10, coh |-> 10,
   max_speed |-> 4 * Unit, max_force |-> Unit \div 10, color |-> "cyan"]

DefaultMetrics ==
  [state |-> "RELAXED", alpha_power |-> 0, beta_power |-> 0, ratio |-> ZeroRatio]

VARIABLES
  pc,               \* position of main() in its loop
  running,          \* main's running flag
  tick,             \* loop iterations started
  inlet,            \* TRUE when a StreamInlet was opened
  pending,          \* samples in flight: pushed to the outlet, not yet pulled
  signal_buffer,    \* collections.deque(maxlen=256)
  current_metrics,
  profile,          \* SEPARATION_WEIGHT .. BOID_COLOR, the six globals
  position, velocity, acceleration,
  idx,              \* the boid the for loop is at
  is_relaxed, sent, chunks,      \* the producer
  stepped,          \* passes of the drain loop taken one at a time in this iteration
  faults,           \* malformed samples pushed so far
  history,          \* every value appended to signal_buffer, in order
  classified,       \* get_brain_state was called in this iteration
  tickStart,        \* current_metrics, profile, boids and appends when the iteration began
  seen,             \* per boid, the profile flock() and update() read
  forces,           \* per boid, what separation, alignment, cohesion returned
  updated,          \* boids update() has run for since the last profile write
  beforeEdges,      \* per boid, position and velocity handed to edges()
  passes,           \* per boid, the calls of flock() and of update() in this iteration
  in_alpha, in_beta, out_metrics          \* inputs and result of Decide

vars ==
  <<pc, running, tick, inlet, pending, signal_buffer, current_metrics, profile,
    position, velocity, acceleration, idx, is_relaxed, sent, chunks,
    stepped, faults, history, classified, tickStart, seen, forces, updated, beforeEdges,
    passes, in_alpha, in_beta, out_metrics>>

SEPARATION_WEIGHT == profile.sep

ALIGNMENT_WEIGHT == profile.ali

COHESION_WEIGHT == profile.coh

MAX_SPEED == profile.max_speed

MAX_FORCE == profile.max_force

BOID_COLOR == profile.color

\* ------------------------------------------------------------ producers
\* fake_brain, relaxed: sin(now * 10 * 2 * pi) at now = n / 256, jitter taken as 0.
RelaxedSample(n) == RoundDiv(SampleUnit * SinT(10 * n), TrigScale)

\* fake_brain, stressed: random.uniform(-2.0, 2.0), a fixed scrambling of n.
StressedSample(n) == RoundDiv((((38 * n * n + 30 * n) % 41) - 20) * SampleUnit, 10)

\* A sample is the list of its channel values; only channel 0 is kept.
Sample(relaxed, n) == << IF relaxed THEN RelaxedSample(n) ELSE StressedSample(n) >>

\* The producer's loop, ChunkLen times: LSL hands the samples over in chunks.
\* The state toggle comes due (every 10 seconds) or not, then
\* outlet.push_sample(sample).
Deliver ==
  /\ pc = "drain"
  /\ inlet
  /\ chunks < MaxChunks
  /\ \E due \in BOOLEAN : is_relaxed' = IF due THEN ~is_relaxed ELSE is_relaxed
  /\ pending' = pending \o [j \in 1..ChunkLen |-> Sample(is_relaxed', sent + j - 1)]
  /\ sent' = sent + ChunkLen
  /\ chunks' = chunks + 1
  /\ UNCHANGED <<pc, running, tick, inlet, signal_buffer, current_metrics,
                 profile, position, velocity, acceleration, idx, stepped,
                 faults, history, classified, tickStart, seen, forces, updated,
                 beforeEdges, passes, in_alpha, in_beta, out_metrics>>

\* ----------------------------------------------------------------- Boid
RECURSIVE VSum(_, _)
VSum(f, S) ==
  IF S = {} THEN ZeroVec
  ELSE LET o == CHOOSE x \in S : TRUE
       IN  VAdd(f[o], VSum(f, S \ {o}))

SteerUnclamped(i, target_vec) ==
  IF LengthSquared(target_vec) = 0 THEN ZeroVec
  ELSE VSub(VMulScalar(Normalize(target_vec), MAX_SPEED), velocity[i])

\* Boid._steer_towards
steer_towards(i, target_vec) ==
  IF LengthSquared(target_vec) = 0 THEN ZeroVec
  ELSE LET desired == VMulScalar(Normalize(target_vec), MAX_SPEED)
           steer   == VSub(desired, velocity[i])
       IN  IF Length(steer) > MAX_FORCE THEN ScaleToLength(steer, MAX_FORCE) ELSE steer

Distance(i, o) == Length(VSub(position[i], position[o]))

\* The boids separation() counts.
SeparationNeighbours(i) ==
  {o \in Boids : o # i /\ Distance(i, o) < PERCEPTION_RADIUS /\ Distance(i, o) > 0}

\* The boids alignment() and cohesion() count.
Neighbours(i) ==
  {o \in Boids : o # i /\ Distance(i, o) < PERCEPTION_RADIUS}

\* diff / d: what separation() adds to steer for the neighbour o.
Away(i, o) == VDivScalar(VSub(position[i], position[o]), Distance(i, o))

separation(i) ==
  LET near  == SeparationNeighbours(i)
      away  == [o \in near |-> Away(i, o)]
      total == Cardinality(near)
  IN  IF total > 0 THEN steer_towards(i, VDivCount(VSum(away, near), total)) ELSE ZeroVec

alignment(i) ==
  LET near  == Neighbours(i)
      total == Cardinality(near)
  IN  IF total > 0 THEN steer_towards(i, VDivCount(VSum(velocity, near), total)) ELSE ZeroVec

cohesion(i) ==
  LET near  == Neighbours(i)
      total == Cardinality(near)
  IN  IF total > 0
      THEN steer_towards(i, VSub(VDivCount(VSum(position, near), total), position[i]))
      ELSE ZeroVec

\* Boid.flock: the acceleration from the three forces.
Combine(sep, ali, coh) ==
  VAdd(VAdd(VMulWeight(sep, SEPARATION_WEIGHT), VMulWeight(ali, ALIGNMENT_WEIGHT)),
       VMulWeight(coh, COHESION_WEIGHT))

NoSpeedLimit(v) == v

\* Boid.update: the speed limit on the new velocity.
LimitSpeed(v) ==
  IF Length(v) > MAX_SPEED THEN ScaleToLength(v, MAX_SPEED) ELSE v

WrapCoordinate(c, bound) ==
  IF c > bound THEN 0 ELSE IF c < 0 THEN bound ELSE c

EdgesBounce(b) ==
  [position |-> Vec(WrapCoordinate(b.position[1], WIDTH), WrapCoordinate(b.position[2], HEIGHT)),
   velocity |-> IF b.position[1] > WIDTH \/ b.position[1] < 0
                THEN Vec(-b.velocity[1], b.velocity[2]) ELSE b.velocity]

\* Boid.edges
edges(b) ==
  [position |-> Vec(WrapCoordinate(b.position[1], WIDTH), WrapCoordinate(b.position[2], HEIGHT)),
   velocity |-> b.velocity]

\* A sample whose channel list is empty.
DeliverMalformed ==
  /\ pc = "drain"
  /\ inlet
  /\ faults < MaxFaults
  /\ pending' = Append(pending, << >>)
  /\ faults' = faults + 1
  /\ UNCHANGED <<pc, running, tick, inlet, signal_buffer, current_metrics,
                 profile, position, velocity, acceleration, idx, is_relaxed,
                 sent, chunks, stepped, history, classified, tickStart, seen,
                 forces, updated, beforeEdges, passes, in_alpha, in_beta,
                 out_metrics>>

\* ------------------------------------------------------------ main loop
NoProfile == [color |-> "none"]

NotSeen == [b \in Boids |-> [flock |-> NoProfile, update |-> NoProfile]]

NoPasses == [b \in Boids |-> [flock |-> 0, update |-> 0]]

NoForces == [b \in Boids |-> [sep |-> ZeroVec, ali |-> ZeroVec, coh |-> ZeroVec]]

Headings ==
  << Vec(4 * Unit, 0), Vec(-3 * Unit, -2 * Unit), Vec(0, 4 * Unit), Vec(Unit, 0) >>

Layouts == {1, 2}

\* Boid.__init__: layout 1 is a flock at the bottom right corner, layout 2
\* has boid 1 alone at the top left corner and the others in pairs that
\* share a position.
InitPosition(layout, b) ==
  IF layout = 1 THEN Vec(WIDTH - 2 * Unit * b, HEIGHT - Unit * b)
  ELSE Vec(40 * Unit * (b \div 2), 40 * Unit * (b \div 2) + Unit)

InitVelocity(layout, b) ==
  IF layout = 1 THEN Headings[((b - 1) % 4) + 1] ELSE Headings[(b % 4) + 1]

\* collections.deque(maxlen).append
DequeAppendDropNew(buf, x, maxlen) ==
  IF Len(buf) = maxlen THEN buf ELSE Append(buf, x)

DequeAppend(buf, x, maxlen) ==
  IF Len(buf) = maxlen THEN Append(Tail(buf), x) ELSE Append(buf, x)

Init ==
  /\ pc = "events"
  /\ running = TRUE
  /\ tick = 0
  /\ inlet \in BOOLEAN
  /\ pending = << >>
  /\ signal_buffer = << >>
  /\ current_metrics = DefaultMetrics
  /\ profile = ModuleDefaults
  /\ \E layout \in Layouts :
       /\ position = [b \in Boids |-> InitPosition(layout, b)]
       /\ velocity = [b \in Boids |-> InitVelocity(layout, b)]
  /\ acceleration = [b \in Boids |-> ZeroVec]
  /\ idx = 1
  /\ is_relaxed = TRUE
  /\ sent = 0
  /\ chunks = 0
  /\ stepped = 0
  /\ faults = 0
  /\ history = << >>
  /\ classified = FALSE
  /\ tickStart = [metrics |-> DefaultMetrics, profile |-> ModuleDefaults,
                  position |-> position, velocity |-> velocity, appended |-> 0]
  /\ seen = NotSeen
  /\ forces = NoForces
  /\ updated = {}
  /\ passes = NoPasses
  /\ beforeEdges = [b \in Boids |-> [position |-> position[b], velocity |-> velocity[b]]]
  /\ in_alpha = 0
  /\ in_beta = 0
  /\ out_metrics = None

EventsBreak ==
  /\ pc = "events"
  /\ running
  /\ tick < MaxTicks
  /\ \E stop \in BOOLEAN : running' = ~stop
  /\ tick' = tick + 1
  /\ pc' = IF ~running' THEN "done" ELSE IF inlet THEN "drain" ELSE "flock"
  /\ idx' = 1
  /\ classified' = FALSE
  /\ stepped' = 0
  /\ tickStart' = [metrics |-> current_metrics, profile |-> profile,
                   position |-> position, velocity |-> velocity, appended |-> Len(history)]
  /\ passes' = NoPasses
  /\ seen' = NotSeen
  /\ updated' = {}
  /\ UNCHANGED <<inlet, pending, signal_buffer, current_metrics, profile,
                 position, velocity, acceleration, is_relaxed, sent, chunks,
                 faults, history, forces, beforeEdges, in_alpha, in_beta,
                 out_metrics>>

\* for event in pygame.event.get(): a QUIT or ESC event clears running.
Events ==
  /\ pc = "events"
  /\ running
  /\ tick < MaxTicks
  /\ \E stop \in BOOLEAN : running' = ~stop
  /\ tick' = tick + 1
  /\ pc' = IF inlet THEN "drain" ELSE "flock"
  /\ idx' = 1
  /\ classified' = FALSE
  /\ stepped' = 0
  /\ tickStart' = [metrics |-> current_metrics, profile |-> profile,
                   position |-> position, velocity |-> velocity, appended |-> Len(history)]
  /\ passes' = NoPasses
  /\ seen' = NotSeen
  /\ updated' = {}
  /\ UNCHANGED <<inlet, pending, signal_buffer, current_metrics, profile,
                 position, velocity, acceleration, is_relaxed, sent, chunks,
                 faults, history, forces, beforeEdges, in_alpha, in_beta,
                 out_metrics>>

\* while running: fails, pygame.quit()
Quit ==
  /\ pc = "events"
  /\ ~running
  /\ pc' = "done"
  /\ UNCHANGED <<running, tick, inlet, pending, signal_buffer, current_metrics,
                 profile, position, velocity, acceleration, idx, is_relaxed,
                 sent, chunks, stepped, faults, history, classified, tickStart,
                 seen, forces, updated, beforeEdges, passes, in_alpha, in_beta,
                 out_metrics>>

\* The while True loop on samples q[lo..hi]: signal_buffer.append(sample[0])
\* for each in turn (the range is halved to keep the evaluation shallow).
RECURSIVE DrainInto(_, _, _, _)
DrainInto(buf, q, lo, hi) ==
  IF lo > hi THEN buf
  ELSE IF lo = hi THEN DequeAppend(buf, q[lo][1], BUFFER_MAXLEN)
  ELSE LET mid   == (lo + hi) \div 2
           first == DrainInto(buf, q, lo, mid)
       IN  \* the test makes TLC finish the first half before the second
           IF Len(first) >= 0 THEN DrainInto(first, q, mid + 1, hi) ELSE first

\* How many samples are pulled before the first one without a channel 0.
WellFormedPrefix(q) ==
  LET bad == {j \in 1..Len(q) : q[j] = << >>}
  IN  IF bad = {} THEN Len(q) ELSE (CHOOSE j \in bad : \A k \in bad : j <= k) - 1

\* One pass of the while True loop: pull_sample(timeout=0.0), append sample[0].
PullOne ==
  /\ pc = "drain"
  /\ pending # << >>
  /\ stepped < MaxSteps
  /\ stepped' = stepped + 1
  /\ pending' = Tail(pending)
  /\ IF Head(pending) = << >>
     THEN /\ pc' = "crashed"
          /\ UNCHANGED <<signal_buffer, history>>
     ELSE /\ signal_buffer' = DequeAppend(signal_buffer, Head(pending)[1], BUFFER_MAXLEN)
          /\ history' = Append(history, Head(pending)[1])
          /\ pc' = pc
  /\ UNCHANGED <<running, tick, inlet, current_metrics, profile, position,
                 velocity, acceleration, idx, is_relaxed, sent, chunks, faults,
                 classified, tickStart, seen, forces, updated, beforeEdges,
                 passes, in_alpha, in_beta, out_metrics>>

PollWaits == pending # << >>

\* inlet.pull_sample(timeout=0.0) returns at once, with a sample or with None.
PollReturns == TRUE

\* Drain ALL buffered samples this frame: pull_sample(timeout=0.0) until None.
\* sample[0] of a sample without channels raises IndexError out of main().
Drain ==
  /\ pc = "drain"
  /\ PollReturns
  /\ LET good == WellFormedPrefix(pending)
     IN  /\ signal_buffer' = DrainInto(signal_buffer, pending, 1, good)
         /\ history' = history \o [j \in 1..good |-> pending[j][1]]
         /\ IF good = Len(pending)
            THEN /\ pending' = << >>
                 /\ pc' = "classify"
            ELSE /\ pending' = SubSeq(pending, good + 2, Len(pending))
                 /\ pc' = "crashed"
  /\ UNCHANGED <<running, tick, inlet, current_metrics, profile, position,
                 velocity, acceleration, idx, is_relaxed, sent, chunks,
                 stepped, faults, classified, tickStart, seen, forces, updated,
                 beforeEdges, passes, in_alpha, in_beta, out_metrics>>

\* pull_sample raises on an empty queue (the stream is lost): nothing in
\* main() catches it.
PullRaises ==
  /\ pc = "drain"
  /\ pending = << >>
  /\ pc' = "crashed"
  /\ UNCHANGED <<running, tick, inlet, pending, signal_buffer, current_metrics,
                 profile, position, velocity, acceleration, idx, is_relaxed,
                 sent, chunks, stepped, faults, history, classified, tickStart,
                 seen, forces, updated, beforeEdges, passes, in_alpha, in_beta,
                 out_metrics>>

\* if len(signal_buffer) == 256
BufferIsFullAtLeast(buf) == Len(buf) >= 1

BufferIsFull(buf) == Len(buf) = FULL_LEN

\* The classification block and the assignment of the six globals.
Classify ==
  /\ pc = "classify"
  /\ IF BufferIsFull(signal_buffer)
     THEN \E metrics \in {get_brain_state(signal_buffer, RATE)} :
            /\ current_metrics' = IF metrics # None THEN metrics ELSE current_metrics
            /\ classified' = TRUE
            /\ profile' = ProfileFor(current_metrics'.state)
     ELSE UNCHANGED <<current_metrics, classified, profile>>
  /\ pc' = "flock"
  /\ idx' = 1
  /\ UNCHANGED <<running, tick, inlet, pending, signal_buffer, position,
                 velocity, acceleration, is_relaxed, sent, chunks, stepped,
                 faults, history, tickStart, seen, forces, updated,
                 beforeEdges, passes, in_alpha, in_beta, out_metrics>>

FlockAndMove ==
  /\ pc = "flock"
  /\ LET sep == separation(idx)
         ali == alignment(idx)
         coh == cohesion(idx)
     IN  /\ acceleration' = [acceleration EXCEPT ![idx] = Combine(sep, ali, coh)]
         /\ forces' = [forces EXCEPT ![idx] = [sep |-> sep, ali |-> ali, coh |-> coh]]
  /\ seen' = [seen EXCEPT ![idx].flock = profile]
  /\ velocity' = [velocity EXCEPT ![idx] = LimitSpeed(VAdd(@, acceleration'[idx]))]
  /\ position' = [position EXCEPT ![idx] = VAdd(@, velocity'[idx])]
  /\ passes' = [passes EXCEPT ![idx].flock = @ + 1]
  /\ IF idx < NumBoids
     THEN /\ idx' = idx + 1
          /\ pc' = pc
     ELSE /\ idx' = 1
          /\ pc' = "update"
  /\ UNCHANGED <<running, tick, inlet, pending, signal_buffer, current_metrics,
                 profile, is_relaxed, sent, chunks, stepped, faults, history,
                 classified, tickStart, updated, beforeEdges, in_alpha,
                 in_beta, out_metrics>>

\* for boid in boids: boid.flock(boids)
Flock ==
  /\ pc = "flock"
  /\ LET sep == separation(idx)
         ali == alignment(idx)
         coh == cohesion(idx)
     IN  /\ acceleration' = [acceleration EXCEPT ![idx] = Combine(sep, ali, coh)]
         /\ forces' = [forces EXCEPT ![idx] = [sep |-> sep, ali |-> ali, coh |-> coh]]
  /\ seen' = [seen EXCEPT ![idx].flock = profile]
  /\ passes' = [passes EXCEPT ![idx].flock = @ + 1]
  /\ IF idx < NumBoids
     THEN /\ idx' = idx + 1
          /\ pc' = pc
     ELSE /\ idx' = 1
          /\ pc' = "update"
  /\ UNCHANGED <<running, tick, inlet, pending, signal_buffer, current_metrics,
                 profile, position, velocity, is_relaxed, sent, chunks,
                 stepped, faults, history, classified, tickStart, updated,
                 beforeEdges, in_alpha, in_beta, out_metrics>>

UpdateThenRelax ==
  /\ pc = "update"
  /\ LET v     == LimitSpeed(VAdd(velocity[idx], acceleration[idx]))
         moved == [position |-> VAdd(position[idx], v), velocity |-> v]
         after == edges(moved)
     IN  /\ beforeEdges' = [beforeEdges EXCEPT ![idx] = moved]
         /\ position' = [position EXCEPT ![idx] = after.position]
         /\ velocity' = [velocity EXCEPT ![idx] = after.velocity]
  /\ acceleration' = [acceleration EXCEPT ![idx] = ZeroVec]
  /\ seen' = [seen EXCEPT ![idx].update = profile]
  /\ passes' = [passes EXCEPT ![idx].update = @ + 1]
  /\ profile' = RelaxedProfile
  /\ updated' = updated \cup {idx}
  /\ IF idx < NumBoids
     THEN /\ idx' = idx + 1
          /\ pc' = pc
     ELSE /\ idx' = 1
          /\ pc' = "events"
  /\ UNCHANGED <<running, tick, inlet, pending, signal_buffer, current_metrics,
                 is_relaxed, sent, chunks, stepped, faults, history,
                 classified, tickStart, forces, in_alpha, in_beta, out_metrics>>

\* for boid in boids: boid.update(); boid.edges()
Update ==
  /\ pc = "update"
  /\ LET v     == LimitSpeed(VAdd(velocity[idx], acceleration[idx]))
         moved == [position |-> VAdd(position[idx], v), velocity |-> v]
         after == edges(moved)
     IN  /\ beforeEdges' = [beforeEdges EXCEPT ![idx] = moved]
         /\ position' = [position EXCEPT ![idx] = after.position]
         /\ velocity' = [velocity EXCEPT ![idx] = after.velocity]
  /\ acceleration' = [acceleration EXCEPT ![idx] = ZeroVec]
  /\ seen' = [seen EXCEPT ![idx].update = profile]
  /\ passes' = [passes EXCEPT ![idx].update = @ + 1]
  /\ updated' = updated \cup {idx}
  /\ IF idx < NumBoids
     THEN /\ idx' = idx + 1
          /\ pc' = pc
     ELSE /\ idx' = 1
          /\ pc' = "events"
  /\ UNCHANGED <<running, tick, inlet, pending, signal_buffer, current_metrics,
                 profile, is_relaxed, sent, chunks, stepped, faults, history,
                 classified, tickStart, forces, in_alpha, in_beta, out_metrics>>

Next ==
  \/ Events
  \/ Quit
  \/ Deliver
  \/ DeliverMalformed
  \/ PullOne
  \/ Drain
  \/ PullRaises
  \/ Classify
  \/ Flock
  \/ Update

Spec == Init /\ [][Next]_vars

\* A step of main(): its place in the loop moves on.  Wherever main() is
\* inside the loop some such step is possible; at the top of the loop it is
\* Quit, or Events while the model lets another iteration start.
MainStep ==
  /\ \/ pc = "drain" /\ PollReturns
     \/ pc \in {"classify", "flock", "update"}
     \/ pc = "events" /\ (~running \/ tick < MaxTicks)
  /\ pc' \in {"events", "drain", "classify", "flock", "update", "done", "crashed"}
  /\ idx' \in Boids

\* main() is one thread that always goes on to its next statement; the
\* producer, the user and the faults are under no such obligation.
SpecLive == Spec /\ WF_<<pc, idx>>(MainStep)

\* --------------------------------------- get_brain_state on drawn powers
InitDecide ==
  /\ pc = "decide"
  /\ running = TRUE
  /\ tick = 0
  /\ inlet = TRUE
  /\ pending = << >>
  /\ signal_buffer = << >>
  /\ current_metrics = DefaultMetrics
  /\ profile = ModuleDefaults
  /\ position = [b \in Boids |-> InitPosition(1, b)]
  /\ velocity = [b \in Boids |-> InitVelocity(1, b)]
  /\ acceleration = [b \in Boids |-> ZeroVec]
  /\ idx = 1
  /\ is_relaxed = TRUE
  /\ sent = 0
  /\ chunks = 0
  /\ stepped = 0
  /\ faults = 0
  /\ history = << >>
  /\ classified = FALSE
  /\ tickStart = [metrics |-> DefaultMetrics, profile |-> ModuleDefaults,
                  position |-> position, velocity |-> velocity, appended |-> 0]
  /\ seen = NotSeen
  /\ forces = NoForces
  /\ updated = {}
  /\ passes = NoPasses
  /\ beforeEdges = [b \in Boids |-> [position |-> position[b], velocity |-> velocity[b]]]
  /\ in_alpha \in 0..MaxPower
  /\ in_beta \in 0..(3 * MaxPower)
  /\ out_metrics = None

\* The part of get_brain_state after the band powers are known.
DecideStep ==
  /\ pc = "decide"
  /\ out_metrics' = Decide(in_alpha, in_beta)
  /\ pc' = "decided"
  /\ UNCHANGED <<running, tick, inlet, pending, signal_buffer, current_metrics,
                 profile, position, velocity, acceleration, idx, is_relaxed,
                 sent, chunks, stepped, faults, history, classified, tickStart,
                 seen, forces, updated, beforeEdges, passes, in_alpha, in_beta>>

SpecDecide == InitDecide /\ [][DecideStep]_vars

\* ================================================================ claims
Min(a, b) == IF a <= b THEN a ELSE b

LastOf(h, n) == SubSeq(h, Len(h) - n + 1, Len(h))

\* |v| <= len, up to one unit of the fixed-point grid.
WithinLength(v, len) == LengthSquared(v) <= (len + 1) * (len + 1)

Flocked(b) == seen[b].flock # NoProfile

\* C1: whatever the producer pushed and however the drain was interleaved,
\* signal_buffer holds at most 256 samples and they are the most recent
\* appended ones in arrival order; after 257 appends it holds appends 2..257.
C1_BufferBoundedFifo ==
  /\ Len(signal_buffer) <= BUFFER_MAXLEN
  /\ signal_buffer = LastOf(history, Min(Len(history), BUFFER_MAXLEN))

C1_Witness ==
  /\ Len(history) = BUFFER_MAXLEN + 1
  /\ signal_buffer = SubSeq(history, 2, BUFFER_MAXLEN + 1)
  /\ signal_buffer # SubSeq(history, 1, BUFFER_MAXLEN)

\* C2: once update() has run for a boid in an iteration, its speed is at most
\* the MAX_SPEED in force in that iteration, also when the iteration swapped
\* STRESSED for RELAXED and the boid entered it faster than 4.0.
C2_SpeedLimited ==
  \A b \in updated : WithinLength(velocity[b], MAX_SPEED)

C2_Witness ==
  /\ tickStart.profile = StressedProfile
  /\ profile = RelaxedProfile
  /\ \E b \in updated : ~WithinLength(tickStart.velocity[b], MAX_SPEED)

\* C3: what separation(), alignment() and cohesion() returned to flock() is
\* never longer than the MAX_FORCE in force, for every boid that flock() has
\* run for in the iteration.
C3_ForcesLimited ==
  \A b \in Boids :
    Flocked(b) => /\ WithinLength(forces[b].sep, MAX_FORCE)
                  /\ WithinLength(forces[b].ali, MAX_FORCE)
                  /\ WithinLength(forces[b].coh, MAX_FORCE)

C3_Witness ==
  \E b \in Boids :
    /\ seen[b].flock = StressedProfile
    /\ forces[b].sep # ZeroVec
    /\ forces[b].ali # ZeroVec
    /\ forces[b].coh # ZeroVec

\* C4: in an iteration every flock() and update() reads the profile that is
\* in force, and the profile is written by the classification step only, so
\* by no step between two boids.
C4_OneProfilePerTick ==
  /\ [](\A b \in Boids :
          /\ seen[b].flock = NoProfile \/ seen[b].flock = profile
          /\ seen[b].update = NoProfile \/ seen[b].update = profile)
  /\ [][profile' # profile => pc = "classify" /\ pc' = "flock"]_vars

C4_Witness ==
  /\ pc = "events"
  /\ tickStart.profile = RelaxedProfile
  /\ profile = StressedProfile
  /\ \A b \in Boids : seen[b].flock = profile /\ seen[b].update = profile

\* C5: get_brain_state is called in an iteration only with exactly 256
\* samples in the buffer; while the buffer holds fewer, current_metrics and
\* the profile are what they were when the iteration began.
C5_ClassifyOnlyWhenFull ==
  /\ classified => Len(signal_buffer) = 256
  /\ Len(signal_buffer) < 256 =>
       current_metrics = tickStart.metrics /\ profile = tickStart.profile

C5_Witness ==
  /\ pc = "flock"
  /\ ~classified
  /\ Len(signal_buffer) > 0
  /\ Len(signal_buffer) < 256

\* C6: without an inlet, or before the buffer was ever full, the boids run
\* with the RELAXED profile sep = 1.0, align = 1.0, coh = 1.0,
\* max_speed = 4.0, max_force = 0.1, cyan.
C6_DefaultIsRelaxed ==
  (pc \in {"flock", "update"} /\ (~inlet \/ Len(history) < FULL_LEN)) =>
    profile = [sep |-> 10, ali |-> 10, coh |-> 10,
               max_speed |-> 4 * Unit, max_force |-> Unit \div 10, color |-> "cyan"]

\* C7: in an iteration that called the classifier the six globals are those
\* of current_metrics' state: RELAXED 1.0, 1.0, 1.0, 4.0, 0.1, cyan and
\* STRESSED 10.0, 0.2, -2.0, 10.0, 0.5, red.
C7_ProfileMatchesState ==
  classified =>
    /\ current_metrics.state \in {"RELAXED", "STRESSED"}
    /\ current_metrics.state = "RELAXED" =>
         profile = [sep |-> 10, ali |-> 10, coh |-> 10,
                    max_speed |-> 4 * Unit, max_force |-> Unit \div 10, color |-> "cyan"]
    /\ current_metrics.state = "STRESSED" =>
         profile = [sep |-> 100, ali |-> 2, coh |-> -20,
                    max_speed |-> 10 * Unit, max_force |-> Unit \div 2, color |-> "red"]

C7_Witness ==
  /\ classified
  /\ current_metrics.state = "STRESSED"
  /\ tickStart.metrics.state = "RELAXED"
  /\ pc = "update"

\* C8: for band powers alpha and beta, get_brain_state answers STRESSED exactly
\* when alpha > 0 and beta / alpha > 2.0, RELAXED otherwise; with alpha = 0 the
\* ratio is 0 and the answer RELAXED whatever beta is.
C8_StressedIffRatioAboveTwo ==
  pc = "decided" =>
    /\ out_metrics.state \in {"RELAXED", "STRESSED"}
    /\ out_metrics.state = "STRESSED" <=> (in_alpha > 0 /\ in_beta > 2 * in_alpha)
    /\ in_alpha = 0 => out_metrics.ratio = ZeroRatio /\ out_metrics.state = "RELAXED"
    /\ in_alpha > 0 => out_metrics.ratio = Quotient(in_beta, in_alpha)

C8_Witness ==
  /\ pc = "decided"
  /\ in_alpha = 0
  /\ in_beta > 0
  /\ out_metrics.state = "RELAXED"

\* C9: a fault of the drain (pull_sample raising, a sample without a first
\* channel) never ends the loop.
C9_LoopSurvivesFaults == pc # "crashed"

\* C10: edges() leaves the velocity alone, sends a coordinate above its bound
\* to 0 and one below 0 to the bound, keeps a coordinate inside the domain, and
\* every boid ends with 0 <= x <= WIDTH and 0 <= y <= HEIGHT.
C10_EdgesWrap ==
  \A b \in Boids :
    LET before == beforeEdges[b].position
    IN  /\ velocity[b] = beforeEdges[b].velocity
        /\ before[1] > WIDTH => position[b][1] = 0
        /\ before[1] < 0 => position[b][1] = WIDTH
        /\ (before[1] >= 0 /\ before[1] <= WIDTH) => position[b][1] = before[1]
        /\ before[2] > HEIGHT => position[b][2] = 0
        /\ before[2] < 0 => position[b][2] = HEIGHT
        /\ (before[2] >= 0 /\ before[2] <= HEIGHT) => position[b][2] = before[2]
        /\ position[b][1] >= 0 /\ position[b][1] <= WIDTH
        /\ position[b][2] >= 0 /\ position[b][2] <= HEIGHT

C10_Witness ==
  \E b \in updated :
    /\ beforeEdges[b].position[1] > WIDTH
    /\ position[b][1] = 0
    /\ position[b][2] = beforeEdges[b].position[2]
    /\ velocity[b] # ZeroVec

OnePass == [flock |-> 1, update |-> 1]

\* C11: an iteration calls flock() and update() once for every boid, whether
\* its drain found no sample, one or many, and an iteration that began always
\* reaches its end (or the exception of C9): the drain does not wait for the
\* producer.
C11_OneFlockingTickPerIteration ==
  /\ [](\A b \in Boids : passes[b].flock <= 1 /\ passes[b].update <= 1)
  /\ []((pc = "events" /\ tick > 0) => \A b \in Boids : passes[b] = OnePass)
  /\ (pc \in {"drain", "classify", "flock", "update"}) ~> (pc \in {"events", "crashed"})

C11_Witness ==
  /\ pc = "events"
  /\ inlet
  /\ tick = 2
  /\ tickStart.appended > 1
  /\ Len(history) = tickStart.appended
  /\ \A b \in Boids : passes[b] = OnePass

\* C12: current_metrics' state and the profile differ from what they were when
\* the iteration began only if the iteration appended a sample and the new
\* ratio is on the other side of 2.0 from the previous one; an iteration that
\* appends nothing changes neither.
C12_ChangeOnlyOnCrossing ==
  (current_metrics.state # tickStart.metrics.state \/ profile # tickStart.profile) =>
    /\ Len(history) > tickStart.appended
    /\ RatioAboveThreshold(current_metrics.ratio)
         # RatioAboveThreshold(tickStart.metrics.ratio)

\* C13: flock() has run for every boid before update() runs for any, no boid
\* has moved while the flock() pass lasts, a call of flock() writes the
\* acceleration of its own boid only, and so when the pass is over every
\* acceleration is the one the start-of-iteration positions and velocities give.
C13_TwoPasses ==
  /\ [](pc \in {"drain", "classify", "flock"} =>
          position = tickStart.position /\ velocity = tickStart.velocity)
  /\ [](\A b \in Boids : passes[b].update > 0 => \A o \in Boids : passes[o].flock > 0)
  /\ []((pc = "update" /\ updated = {}) =>
          /\ position = tickStart.position /\ velocity = tickStart.velocity
          /\ \A b \in Boids :
               acceleration[b] = Combine(separation(b), alignment(b), cohesion(b)))
  /\ [][pc = "flock" =>
          /\ position' = position /\ velocity' = velocity
          /\ \A b \in Boids \ {idx} : acceleration'[b] = acceleration[b]]_vars

C13_Witness ==
  /\ pc = "update"
  /\ updated = {}
  /\ tick = 2
  /\ \A b \in Boids : passes[b] = [flock |-> 1, update |-> 0]
  /\ \E b, o \in Boids : b # o /\ acceleration[b] # ZeroVec /\ acceleration[o] # ZeroVec

\* C14: running is cleared by the event poll at the top of an iteration and
\* nowhere else; after that no iteration starts, the one in progress is run
\* to its end, so main() is never left with some boids updated and others
\* not, and main() does leave its loop (by pygame.quit(), or by the exception
\* of C9).
C14_StopEndsAfterFullTick ==
  /\ [][running' # running => pc = "events" /\ running /\ pc' \in {"drain", "flock"}]_vars
  /\ [][~running => tick' = tick]_vars
  /\ [](pc = "done" => ~running /\ \A b \in Boids : passes[b] = OnePass)
  /\ [](pc \in {"done", "crashed"} => \A b, o \in Boids : passes[b] = passes[o])
  /\ ~running ~> ((pc = "done" /\ \A b \in Boids : passes[b] = OnePass) \/ pc = "crashed")

C14_Witness ==
  /\ pc = "done"
  /\ tick = 2
  /\ inlet
  /\ Len(history) > tickStart.appended
  /\ \A b \in Boids : passes[b] = OnePass

\* 1 / d for a distance d, on the fixed-point grid.
Inverse(d) == RoundDiv(Unit * Unit, d)

\* C15: the neighbours of separation() are the other boids at a distance d
\* with 0 < d < PERCEPTION_RADIUS, and what is accumulated for each points
\* away from it with magnitude 1 / d (up to one unit of the grid).
C15_SeparationWeighsByInverseDistance ==
  \A i \in Boids :
    /\ SeparationNeighbours(i) =
         {o \in Boids \ {i} : Distance(i, o) > 0 /\ Distance(i, o) < PERCEPTION_RADIUS}
    /\ \A o \in SeparationNeighbours(i) :
         Abs(Length(Away(i, o)) - Inverse(Distance(i, o))) <= 1

====
